---- MODULE Spec2Model ----
(***************************************************************************)
(* offspect/input/tms/cmep/xdf.py: prepare_annotations (the event          *)
(* timestamp correction pipeline) and cut_traces (windowed trace           *)
(* extraction with baseline removal).                                      *)
(*                                                                         *)
(* Time is counted in milliseconds: 0.045 s is 45 and 30 s is 30000.       *)
(* Sample values are integers scaled by Scale, so that every mean the      *)
(* cutter takes is an exact integer (arithmetic over the reals, not over   *)
(* floating point numbers).                                                *)
(***************************************************************************)
EXTENDS Integers, Sequences, FiniteSets, TLC

VARIABLES
    streams,        \* XDFFile(xdffile): name -> [present, hostname]
    event_stream,   \* the event_stream argument (a stream name)
    pc,             \* position in prepare_annotations
    raised,         \* the exception that ended prepare_annotations, if any
    primary,        \* the timestamps read from the event stream (line 91)
    time_stamps,    \* the local time_stamps
    coords,         \* the local coords
    stimulation_intensity_didt,
    stimulation_intensity_mso,
    rda_stamps,     \* the local rda_stamps: [some, val], some = FALSE is None
    bvr,            \* name of the stream handed to correct_tkeo, or "none"
    anno,           \* the per-trial records of the returned annotation
    cutPc,          \* position in cut_traces
    channel,        \* annotation attrs: channel_of_interest
    pre,            \* annotation attrs: samples_pre_event
    post,           \* annotation attrs: samples_post_event
    onsets,         \* annotation traces: event_sample of every trial
    time_series,    \* datastream.time_series: row -> column -> value
    recorded,       \* the sample matrix as loaded, before cut_traces ran
    traces          \* the views appended to traces: [start, stop, cix]

vars == <<streams, event_stream, pc, raised, primary, time_stamps, coords,
          stimulation_intensity_didt, stimulation_intensity_mso, rda_stamps,
          bvr, anno, cutPc, channel, pre, post, onsets, time_series,
          recorded, traces>>

annoVars == <<streams, event_stream, pc, raised, primary, time_stamps, coords,
              stimulation_intensity_didt, stimulation_intensity_mso,
              rda_stamps, bvr, anno>>

cutVars == <<cutPc, channel, pre, post, onsets, time_series, recorded, traces>>

----------------------------------------------------------------------------
(* Bounds of the model.                                                    *)

MaxEvents == 3

MaxRda == 6

MaxRdaShort == 2

DataSamples == 60

MaxPre == 2

MaxPost == 2

MaxTrials == 2

StreamLen == 4

----------------------------------------------------------------------------
(* Constants of the program.                                               *)

DenseSpanMs == 30000

ConstantShiftMs == 45

ControlHost == "SEPHYS-CTRL"

OtherHost == "OTHER-PC"

----------------------------------------------------------------------------
(* Helpers.                                                                *)

Abs(x) == IF x < 0 THEN 0 - x ELSE x

Min2(a, b) == IF a < b THEN a ELSE b

Max2(a, b) == IF a > b THEN a ELSE b

Range(s) == {s[i] : i \in 1..Len(s)}

SetMax(S) == CHOOSE m \in S : \A x \in S : x <= m

SetMin(S) == CHOOSE m \in S : \A x \in S : m <= x

Prefixes(master, n) == {SubSeq(master, 1, k) : k \in 0..Min2(n, Len(master))}

\* np.ptp of a non-empty list: max minus min
ptp(s) == SetMax(Range(s)) - SetMin(Range(s))

\* offspect.protocols.xdf.find_closest_idx: the earliest index (from 1 here)
\* with minimal absolute difference
find_closest_idx(ts, stamps) ==
    CHOOSE i \in 1..Len(stamps) :
        /\ \A j \in 1..Len(stamps) : Abs(stamps[i] - ts) <= Abs(stamps[j] - ts)
        /\ \A j \in 1..(i - 1) : Abs(stamps[j] - ts) > Abs(stamps[i] - ts)

find_closest(ts, stamps) == stamps[find_closest_idx(ts, stamps)]

----------------------------------------------------------------------------
(* The recording: the streams prepare_annotations looks up by name.        *)

MarkerNames == {"BrainVision RDA Markers", "BrainVision RDA Markers2"}

RawNames == {"BrainVision RDA", "BrainVision RDA2"}

HostedNames == MarkerNames \cup RawNames

StreamNames == HostedNames \cup {"localite_flow", "localite_marker", "reiz_marker_sa"}

Absent == [present |-> FALSE, hostname |-> ""]

\* what a recording can hold under each name
StreamChoices(name) ==
    IF name \in HostedNames
    THEN {Absent} \cup {[present |-> TRUE, hostname |-> h] : h \in {ControlHost, OtherHost}}
    ELSE IF name = "reiz_marker_sa"
    THEN {[present |-> TRUE, hostname |-> ""]}
    ELSE {Absent, [present |-> TRUE, hostname |-> ""]}

\* the timestamps of the events of the primary event stream
EventMaster == <<1050, 2950, 10900, 40900, 41950>>

\* 'S  2' markers of a hardware marker stream, recorded from its start
RdaMaster == <<1000, 2000, 3000, 10000, 11000, 41000, 42000, 43000>>

\* 'S  2' markers of a marker stream that recorded only a few of them
RdaShortMaster == <<10000, 50000, 50100, 50200>>

\* 'S  2' markers that all arrived in one burst
RdaBurst == <<10000, 10100, 10200>>

RdaChoices ==
    Prefixes(RdaMaster, MaxRda) \cup Prefixes(RdaShortMaster, MaxRdaShort) \cup {RdaBurst}

\* datastream.time_stamps, one per sample row, index 0 first
data_time_stamps == [i \in 0..(DataSamples - 1) |-> 1000 * i]

\* what correct_tkeo may add to a timestamp
TkeoOffsets == {0, 1}

None == [some |-> FALSE, val |-> <<>>]

Some(s) == [some |-> TRUE, val |-> s]

NoException == [exc |-> "none", at |-> "none"]

----------------------------------------------------------------------------
(* prepare_annotations                                                     *)

HostMatches_AnyHost(name) == streams[name].present

\* `name in streams and streams[name].hostname == "SEPHYS-CTRL"`
HostMatches(name) ==
    streams[name].present /\ streams[name].hostname = ControlHost

\* lines 121-133: the second stream, when it qualifies, replaces the first
SelectedRda(s1, s2) ==
    LET first == IF HostMatches("BrainVision RDA Markers") THEN Some(s1) ELSE None
    IN  IF HostMatches("BrainVision RDA Markers2") THEN Some(s2) ELSE first

\* the elements of s, each kept where it first occurs
Distinct(s) ==
    LET keep == {i \in 1..Len(s) : \A j \in 1..(i - 1) : s[j] # s[i]}
        rank(i) == Cardinality({j \in keep : j <= i})
    IN  [k \in 1..Cardinality(keep) |-> s[CHOOSE i \in keep : rank(i) = k]]

CorrectedStamps_StrictCount(ts, rda) ==
    IF ptp(rda) < DenseSpanMs
    THEN [i \in 1..Len(ts) |-> ts[i] + ConstantShiftMs]
    ELSE IF Len(rda) > Len(ts)
    THEN [i \in 1..Len(ts) |-> find_closest(ts[i], rda)]
    ELSE ts

CorrectedStamps_CountFirst(ts, rda) ==
    IF Len(rda) < Len(ts)
    THEN ts
    ELSE IF ptp(rda) < DenseSpanMs
    THEN [i \in 1..Len(ts) |-> ts[i] + ConstantShiftMs]
    ELSE [i \in 1..Len(ts) |-> find_closest(ts[i], rda)]

CorrectedStamps_Deduplicated(ts, rda) ==
    IF ptp(rda) < DenseSpanMs
    THEN [i \in 1..Len(ts) |-> ts[i] + ConstantShiftMs]
    ELSE IF Len(rda) >= Len(ts)
    THEN Distinct([i \in 1..Len(ts) |-> find_closest(ts[i], rda)])
    ELSE ts

\* lines 138-147, for a non-empty rda: the three branches of the correction
CorrectedStamps(ts, rda) ==
    IF ptp(rda) < DenseSpanMs
    THEN [i \in 1..Len(ts) |-> ts[i] + ConstantShiftMs]
    ELSE IF Len(rda) >= Len(ts)
    THEN [i \in 1..Len(ts) |-> find_closest(ts[i], rda)]
    ELSE ts

\* lines 149-157: the raw-waveform stream handed to correct_tkeo
TkeoStream ==
    IF HostMatches("BrainVision RDA") THEN "BrainVision RDA" ELSE "BrainVision RDA2"

\* offspect.protocols.xdf.correct_tkeo: one refined timestamp per timestamp,
\* each at the artifact found near it
correct_tkeo(ts) ==
    {[i \in 1..Len(ts) |-> ts[i] + off[i]] : off \in [1..Len(ts) -> TkeoOffsets]}

\* offspect.protocols.xdf.find_closest_samples: the row of the nearest sample
find_closest_samples(ts) ==
    [i \in 1..Len(ts) |-> find_closest_idx(ts[i], [k \in 1..DataSamples |-> data_time_stamps[k - 1]]) - 1]

\* offspect.protocols.xdf.list_nan_coords / list_nan
list_nan(n) == [i \in 1..n |-> "nan"]

\* offspect.protocols.xdf.yield_loc_coords / yield_loc_mso / yield_loc_didt
yield_loc(ts) == [i \in 1..Len(ts) |-> "tracked"]

\* lines 172-192: the per-trial records, ids from enumerate
TraceAttrs(ts) ==
    LET event_samples == find_closest_samples(ts)
        event_times == [i \in 1..Len(ts) |-> data_time_stamps[event_samples[i]] - data_time_stamps[0]]
    IN  [i \in 1..Len(event_samples) |->
            [id |-> i - 1,
             event_name |-> event_stream,
             event_sample |-> event_samples[i],
             event_time |-> event_times[i],
             xyz_coords |-> coords[i],
             time_since_last_pulse_in_s |->
                 IF i = 1 THEN [inf |-> TRUE, val |-> 0]
                 ELSE [inf |-> FALSE, val |-> event_times[i] - event_times[i - 1]],
             stimulation_intensity_mso |-> stimulation_intensity_mso[i],
             stimulation_intensity_didt |-> stimulation_intensity_didt[i]]]

Raise(exc, at) ==
    /\ pc' = "raised"
    /\ raised' = [exc |-> exc, at |-> at]

\* lines 87-93
ReadEvents ==
    /\ pc = "start"
    /\ \/ /\ ~streams[event_stream].present
          /\ Raise("KeyError", "ReadEvents")
          /\ UNCHANGED <<primary, time_stamps>>
       \/ /\ streams[event_stream].present
          /\ \E ts \in Prefixes(EventMaster, MaxEvents) :
                /\ primary' = ts
                /\ time_stamps' = ts
          /\ pc' = "resolve"
          /\ UNCHANGED raised
    /\ UNCHANGED <<streams, event_stream, coords, stimulation_intensity_didt,
                   stimulation_intensity_mso, rda_stamps, bvr, anno>>
    /\ UNCHANGED cutVars

\* lines 95-104
ResolveCoords ==
    /\ pc = "resolve"
    /\ \/ /\ streams["localite_flow"].present \/ streams["localite_marker"].present
          /\ ~streams["localite_marker"].present
          /\ Raise("KeyError", "ResolveCoords")
          /\ UNCHANGED <<coords, stimulation_intensity_didt, stimulation_intensity_mso>>
       \/ /\ streams["localite_flow"].present \/ streams["localite_marker"].present
          /\ streams["localite_marker"].present
          /\ coords' = yield_loc(time_stamps)
          /\ stimulation_intensity_didt' = yield_loc(time_stamps)
          /\ stimulation_intensity_mso' = yield_loc(time_stamps)
          /\ pc' = "select"
          /\ UNCHANGED raised
       \/ /\ ~(streams["localite_flow"].present \/ streams["localite_marker"].present)
          /\ coords' = list_nan(Len(time_stamps))
          /\ stimulation_intensity_didt' = list_nan(Len(time_stamps))
          /\ stimulation_intensity_mso' = list_nan(Len(time_stamps))
          /\ pc' = "select"
          /\ UNCHANGED raised
    /\ UNCHANGED <<streams, event_stream, primary, time_stamps, rda_stamps, bvr, anno>>
    /\ UNCHANGED cutVars

\* lines 121-133
SelectRda ==
    /\ pc = "select"
    /\ \E s1 \in RdaChoices, s2 \in RdaChoices :
          rda_stamps' = SelectedRda(s1, s2)
    /\ pc' = "correct"
    /\ UNCHANGED <<streams, event_stream, raised, primary, time_stamps, coords,
                   stimulation_intensity_didt, stimulation_intensity_mso, bvr, anno>>
    /\ UNCHANGED cutVars

\* lines 137-147
CorrectTimes ==
    /\ pc = "correct"
    /\ \/ /\ ~rda_stamps.some
          /\ pc' = "build"
          /\ UNCHANGED <<raised, time_stamps>>
       \/ /\ rda_stamps.some
          /\ rda_stamps.val = <<>>
          /\ Raise("ValueError", "CorrectTimes")
          /\ UNCHANGED time_stamps
       \/ /\ rda_stamps.some
          /\ rda_stamps.val # <<>>
          /\ time_stamps' = CorrectedStamps(time_stamps, rda_stamps.val)
          /\ pc' = "tkeo"
          /\ UNCHANGED raised
    /\ UNCHANGED <<streams, event_stream, primary, coords, stimulation_intensity_didt,
                   stimulation_intensity_mso, rda_stamps, bvr, anno>>
    /\ UNCHANGED cutVars

\* lines 149-159
CorrectTkeo ==
    /\ pc = "tkeo"
    /\ \/ /\ ~streams[TkeoStream].present
          /\ Raise("KeyError", "CorrectTkeo")
          /\ UNCHANGED <<time_stamps, bvr>>
       \/ /\ streams[TkeoStream].present
          /\ bvr' = TkeoStream
          /\ \E ts \in correct_tkeo(time_stamps) : time_stamps' = ts
          /\ pc' = "build"
          /\ UNCHANGED raised
    /\ UNCHANGED <<streams, event_stream, primary, coords, stimulation_intensity_didt,
                   stimulation_intensity_mso, rda_stamps, anno>>
    /\ UNCHANGED cutVars

\* lines 162-193
BuildAnnotation ==
    /\ pc = "build"
    /\ anno' = TraceAttrs(time_stamps)
    /\ pc' = "done"
    /\ UNCHANGED <<streams, event_stream, raised, primary, time_stamps, coords,
                   stimulation_intensity_didt, stimulation_intensity_mso,
                   rda_stamps, bvr>>
    /\ UNCHANGED cutVars

CutIdle ==
    /\ cutPc = "idle"
    /\ channel = ""
    /\ pre = 0
    /\ post = 0
    /\ onsets = <<>>
    /\ time_series = <<>>
    /\ recorded = <<>>
    /\ traces = <<>>

Init ==
    /\ streams \in {f \in [StreamNames -> UNION {StreamChoices(n) : n \in StreamNames}] :
                        \A n \in StreamNames : f[n] \in StreamChoices(n)}
    /\ event_stream \in {"localite_marker", "reiz_marker_sa"}
    /\ pc = "start"
    /\ raised = NoException
    /\ primary = <<>>
    /\ time_stamps = <<>>
    /\ coords = <<>>
    /\ stimulation_intensity_didt = <<>>
    /\ stimulation_intensity_mso = <<>>
    /\ rda_stamps = None
    /\ bvr = "none"
    /\ anno = <<>>
    /\ CutIdle

Next ==
    \/ ReadEvents
    \/ ResolveCoords
    \/ SelectRda
    \/ CorrectTimes
    \/ CorrectTkeo
    \/ BuildAnnotation

Spec == Init /\ [][Next]_vars

----------------------------------------------------------------------------
(* cut_traces                                                              *)

RECURSIVE Fact(_)
Fact(n) == IF n <= 1 THEN 1 ELSE n * Fact(n - 1)

RECURSIVE Power(_, _)
Power(b, e) == IF e = 0 THEN 1 ELSE b * Power(b, e - 1)

\* one recorded unit: every mean of up to MaxPre samples, taken up to
\* MaxTrials times over, is a whole number of this unit's parts
Scale == Power(Fact(MaxPre), MaxTrials)

\* datastream.channel_labels, index 0 first
channel_labels == [c \in 0..1 |-> IF c = 0 THEN "EDC_L" ELSE "EDC_R"]

\* datastream.channel_labels.index(channel)
LabelIndex(label) == CHOOSE c \in DOMAIN channel_labels : channel_labels[c] = label

\* recordings: a ramp on the first channel, a curve on the second
Recordings ==
    {[r \in 0..(StreamLen - 1) |->
        [c \in 0..1 |-> IF c = 0 THEN Scale * a * (r + 1) ELSE Scale * (r * r + a + 2)]]
     : a \in 1..2}

OnsetLists == UNION {[1..n -> 0..(StreamLen - 1)] : n \in 0..MaxTrials}

\* where the slice [onset - pre : onset + post] of StreamLen rows starts
SliceStart(onset) ==
    LET a == onset - pre
    IN  IF a < 0 THEN Max2(a + StreamLen, 0) ELSE Min2(a, StreamLen)

\* where it stops (never before it starts)
SliceStop(onset) ==
    LET b == Min2(onset + post, StreamLen)
    IN  Max2(b, SliceStart(onset))

RECURSIVE SumRows(_, _, _, _)
SumRows(m, c, lo, hi) ==
    IF lo >= hi THEN 0 ELSE m[lo][c] + SumRows(m, c, lo + 1, hi)

\* trace[0:pre].mean() of the view on rows start..stop-1 of column c
Baseline(m, c, start, stop) ==
    LET n == Min2(pre, stop - start)
    IN  SumRows(m, c, start, start + n) \div n

\* line 223, `trace -= bl`: trace is a view, so the rows of the stream change
Subtracted(m, c, start, stop, bl) ==
    [r \in DOMAIN m |->
        IF start <= r /\ r < stop THEN [m[r] EXCEPT ![c] = m[r][c] - bl] ELSE m[r]]

\* what a returned trace holds: the rows of the stream it is a view of
TraceValues(t) ==
    [j \in 1..(t.stop - t.start) |-> time_series[t.start + j - 1][t.cix]]

\* lines 219-224, one pass of the loop
CutTrace ==
    /\ cutPc = "loop"
    /\ Len(traces) < Len(onsets)
    /\ LET onset == onsets[Len(traces) + 1]
           cix == LabelIndex(channel)
           start == SliceStart(onset)
           stop == SliceStop(onset)
       IN  /\ \/ /\ start < stop
                 /\ time_series' = Subtracted(time_series, cix, start, stop,
                                              Baseline(time_series, cix, start, stop))
              \/ /\ start = stop
                 /\ UNCHANGED time_series
           /\ traces' = Append(traces, [start |-> start, stop |-> stop, cix |-> cix])
    /\ UNCHANGED <<cutPc, channel, pre, post, onsets, recorded>>
    /\ UNCHANGED annoVars

\* line 225
ReturnTraces ==
    /\ cutPc = "loop"
    /\ Len(traces) = Len(onsets)
    /\ cutPc' = "done"
    /\ UNCHANGED <<channel, pre, post, onsets, time_series, recorded, traces>>
    /\ UNCHANGED annoVars

AnnoIdle ==
    /\ streams = [n \in StreamNames |-> Absent]
    /\ event_stream = "localite_marker"
    /\ pc = "idle"
    /\ raised = NoException
    /\ primary = <<>>
    /\ time_stamps = <<>>
    /\ coords = <<>>
    /\ stimulation_intensity_didt = <<>>
    /\ stimulation_intensity_mso = <<>>
    /\ rda_stamps = None
    /\ bvr = "none"
    /\ anno = <<>>

InitCut ==
    /\ AnnoIdle
    /\ cutPc = "loop"
    /\ channel \in {channel_labels[c] : c \in DOMAIN channel_labels}
    /\ pre \in 1..MaxPre
    /\ post \in 0..MaxPost
    /\ onsets \in OnsetLists
    /\ time_series \in Recordings
    /\ recorded = time_series
    /\ traces = <<>>

NextCut ==
    \/ CutTrace
    \/ ReturnTraces

SpecCut == InitCut /\ [][NextCut]_vars

----------------------------------------------------------------------------
(* Claims about prepare_annotations.                                       *)

\* time_stamps is still what line 91 read, and the correction has just run
AfterCorrection == pc = "tkeo"

Snapped(ts, from, rda) ==
    /\ Len(ts) = Len(from)
    /\ \A i \in 1..Len(from) :
          /\ ts[i] \in Range(rda)
          /\ \A r \in Range(rda) : Abs(ts[i] - from[i]) <= Abs(r - from[i])

Shifted(ts, from) ==
    /\ Len(ts) = Len(from)
    /\ \A i \in 1..Len(from) : ts[i] = from[i] + 45

NoAuxiliary ==
    \A n \in MarkerNames : ~(streams[n].present /\ streams[n].hostname = "SEPHYS-CTRL")

\* C3: when neither marker stream is present with host SEPHYS-CTRL, the
\* correction and the refinement raise nothing and do not run, and the
\* annotation is built from exactly the primary timestamps.
C3_NoAuxiliaryKeepsPrimary ==
    NoAuxiliary =>
        /\ ~rda_stamps.some
        /\ pc # "tkeo"
        /\ bvr = "none"
        /\ raised.at \notin {"CorrectTimes", "CorrectTkeo"}
        /\ pc \in {"build", "done"} => time_stamps = primary
        /\ pc = "done" =>
              /\ Len(anno) = Len(primary)
              /\ \A i \in 1..Len(primary) :
                    anno[i].event_sample = find_closest_samples(primary)[i]

C3_Witness ==
    /\ NoAuxiliary
    /\ streams["BrainVision RDA Markers"].present
    /\ ~streams["BrainVision RDA Markers2"].present
    /\ streams["BrainVision RDA"].hostname = "SEPHYS-CTRL"
    /\ pc = "done"
    /\ Len(anno) = 3

\* C4: when 'localite_marker' is absent and the event stream is another,
\* present stream, the resolver does not fail and yields N missing
\* coordinates and 2 x N missing intensities, whatever else is present.
C4_MissingTrackerDegrades ==
    (~streams["localite_marker"].present /\ streams[event_stream].present)
        => /\ raised.at # "ResolveCoords"
           /\ pc \in {"select", "correct", "tkeo", "build", "done"} =>
                 /\ coords = [i \in 1..Len(primary) |-> "nan"]
                 /\ stimulation_intensity_mso = [i \in 1..Len(primary) |-> "nan"]
                 /\ stimulation_intensity_didt = [i \in 1..Len(primary) |-> "nan"]

\* the tracking streams are such that lines 95-104 pass
TrackerResolves ==
    streams["localite_marker"].present \/ ~streams["localite_flow"].present

\* C6: when the event stream exists, no combination of marker and raw
\* streams and no auxiliary sequence makes prepare_annotations raise.
C6_NeverRaises ==
    (streams[event_stream].present /\ TrackerResolves) => pc # "raised"

\* C8: on every branch the corrected sequence is as long as the primary
\* one, and the annotation holds one record per primary event, with ids
\* 0, 1, ..., N-1 in order.
C8_OneRecordPerEvent ==
    /\ pc \in {"select", "correct", "tkeo", "build", "done"} => Len(time_stamps) = Len(primary)
    /\ pc = "done" =>
          /\ Len(anno) = Len(primary)
          /\ \A i \in 1..Len(anno) : anno[i].id = i - 1

C8_Witness ==
    /\ pc = "done"
    /\ Len(anno) = 2
    /\ rda_stamps.val = <<10000, 50000>>
    /\ bvr = "BrainVision RDA2"
    /\ anno[2].id = 1

\* C9: the stream handed to the artifact detection is always one whose host
\* is SEPHYS-CTRL.
C9_RefinementUsesControlHost ==
    bvr # "none" => (streams[bvr].present /\ streams[bvr].hostname = "SEPHYS-CTRL")

----------------------------------------------------------------------------
(* Claims about cut_traces.                                                *)

Fits(onset) == onset - pre >= 0 /\ onset + post <= StreamLen

\* the mean of the recorded samples at [onset - pre, onset)
RecordedBaseline(onset, c) == SumRows(recorded, c, onset - pre, onset) \div pre

\* C5: when every window fits, each returned trace has pre + post samples
\* and, with the mean of the recorded pre-event samples added back, equals
\* the recorded samples of its window, overlapping windows included.
C5_RoundTrip ==
    (cutPc = "done" /\ \A k \in 1..Len(onsets) : Fits(onsets[k]))
        => \A k \in 1..Len(onsets) :
              LET c == LabelIndex(channel)
                  got == TraceValues(traces[k])
              IN  /\ traces[k].cix = c
                  /\ Len(got) = pre + post
                  /\ \A j \in 1..Len(got) :
                        got[j] + RecordedBaseline(onsets[k], c)
                            = recorded[onsets[k] - pre + j - 1][c]

\* C7: cut_traces never returns a trace list for an annotation with a trial
\* whose window does not fit; no returned trace is short, empty or wrapped.
C7_NoReturnOutOfBounds ==
    cutPc = "done" =>
        \A k \in 1..Len(onsets) :
            /\ Fits(onsets[k])
            /\ traces[k].start = onsets[k] - pre
            /\ traces[k].stop - traces[k].start = pre + post

\* C10: cut_traces leaves every sample of the loaded stream as recorded.
C10_StreamUnchanged == time_series = recorded

====
